---- MODULE Spec2Model ----
(***************************************************************************)
(* Model of free-proxy-scraper.py: main() fetches a list of Proxy records, *)
(* probes each one with check_proxy on a ThreadPoolExecutor, collects the  *)
(* results in input order, rebuilds a table and exports it sorted by       *)
(* status.                                                                 *)
(***************************************************************************)
EXTENDS Integers, Sequences, FiniteSets

(* ---------------------------------------------------------------- bounds *)

\* Largest number of rows fetch_proxies returns in the model.
MaxN == 3

\* ThreadPoolExecutor(max_workers=100), scaled down so that N > max_workers
\* is reached within MaxN.
max_workers == 2

\* The Proxy values a table row can parse to (two distinct rows are enough
\* to tell positions apart; equal rows are allowed).
ProxyValues == {"A", "B"}

\* Largest number of rows in the runs that follow the console feedback over
\* several multiples of 10.
MaxSpinN == 21

(* ------------------------------------------------------------ data model *)

\* An element of the list `proxies`: a Proxy namedtuple as fetch_proxies
\* builds it, or the pair (proxy, status) main writes over it.
Proxy(p) == [kind |-> "Proxy", proxy |-> p, status |-> "-"]

Pair(p, s) == [kind |-> "tuple", proxy |-> p, status |-> s]

RECURSIVE SeqsUpTo(_, _)
SeqsUpTo(S, n) ==
    IF n = 0 THEN {<<>>}
    ELSE LET shorter == SeqsUpTo(S, n - 1)
         IN  shorter \cup {Append(s, x) : s \in {t \in shorter : Len(t) = n - 1}, x \in S}

\* What fetch_proxies can return: one Proxy per table row after the header.
FetchedLists == SeqsUpTo({Proxy(p) : p \in ProxyValues}, MaxN)

\* What requests.get can do in check_proxy: answer with a status code, or raise.
Response(code) == [status_code |-> code, exc |-> "none"]

Raise(e) == [status_code |-> 0, exc |-> e]

\* Exception classes and their direct base class (requests.exceptions and builtins).
BaseOf ==
    [e \in {"ConnectTimeout", "ProxyError", "Timeout", "ConnectionError",
            "RequestException", "IOError", "TypeError", "ValueError",
            "AttributeError", "PermissionError", "Exception"} |->
        CASE e = "ConnectTimeout"   -> "Timeout"
          [] e = "ProxyError"       -> "ConnectionError"
          [] e = "Timeout"          -> "RequestException"
          [] e = "ConnectionError"  -> "RequestException"
          [] e = "RequestException" -> "IOError"
          [] OTHER                  -> "Exception"]

RECURSIVE IsInstance(_, _)
IsInstance(e, cls) ==
    IF e = cls THEN TRUE
    ELSE IF e = "Exception" THEN FALSE
    ELSE IsInstance(BaseOf[e], cls)

\* The outcomes of one probe: 200, a non-200 answer, a timeout, a proxy
\* refusal, and a fault outside the requests hierarchy.
ProbeOutcomes ==
    {Response(200), Response(404), Raise("ConnectTimeout"), Raise("ProxyError"),
     Raise("TypeError")}

(* ------------------------------------------------------------ check_proxy *)

\* What a call returns or raises.
Returned(v) == [raised |-> "none", value |-> v]

Raised(e) == [raised |-> e, value |-> Pair("-", "-")]

\* check_proxy with `except requests.exceptions.Timeout` only.
check_proxy_catches_timeout(proxy, outcome) ==
    IF outcome.exc = "none"
    THEN IF outcome.status_code = 200
         THEN Returned(Pair(proxy.proxy, "working"))
         ELSE Returned(Pair(proxy.proxy, "not working"))
    ELSE IF IsInstance(outcome.exc, "Timeout")
         THEN Returned(Pair(proxy.proxy, "not working"))
         ELSE Raised(outcome.exc)

\* check_proxy without the try/except.
check_proxy_no_except(proxy, outcome) ==
    IF outcome.exc = "none"
    THEN IF outcome.status_code = 200
         THEN Returned(Pair(proxy.proxy, "working"))
         ELSE Returned(Pair(proxy.proxy, "not working"))
    ELSE Raised(outcome.exc)

\* check_proxy with a bare `except Exception`.
check_proxy_catches_all(proxy, outcome) ==
    IF outcome.exc = "none"
    THEN IF outcome.status_code = 200
         THEN Returned(Pair(proxy.proxy, "working"))
         ELSE Returned(Pair(proxy.proxy, "not working"))
    ELSE Returned(Pair(proxy.proxy, "not working"))

check_proxy(proxy, outcome) ==
    IF outcome.exc = "none"
    THEN IF outcome.status_code = 200
         THEN Returned(Pair(proxy.proxy, "working"))
         ELSE Returned(Pair(proxy.proxy, "not working"))
    ELSE IF IsInstance(outcome.exc, "RequestException")
         THEN Returned(Pair(proxy.proxy, "not working"))
         ELSE Raised(outcome.exc)

(* ------------------------------------------------------------------ state *)

VARIABLES
    pc,           \* where main is: fetch, submit, collect, shutdown, unzip, export, done, crashed
    input,        \* the list fetch_proxies returned, as returned
    proxies,      \* main's variable `proxies`
    statuses,     \* main's variable `statuses`
    df,           \* the DataFrame
    i,            \* position of executor.map's submission, then of the enumerate loop (1-based)
    fs,           \* the futures executor.map created, in submission order
    work_queue,   \* the executor's FIFO queue of work items (indices into fs)
    num_threads,  \* worker threads the executor has started
    report,       \* rows of the written .xlsx file
    written,      \* whether to_excel has written the file
    exc,          \* the exception propagating out of main, "none" if none
    requests,     \* per record, the requests.get calls check_proxy has issued for it
    writes,       \* per index of `proxies`, the threads that have assigned to it, in order
    feedback,     \* position of the running_feedback generator in its string (0-based)
    spins,        \* how many times next(feedback) was called
    shown         \* the glyph last printed, "" before the first

\* The state of the console feedback.
progress == <<feedback, spins, shown>>

vars == <<pc, input, proxies, statuses, df, i, fs, work_queue, num_threads,
          report, written, exc, requests, writes, progress>>

NoOutcome == [status_code |-> 0, exc |-> "-"]

NoResult == [raised |-> "-", value |-> Pair("-", "-")]

N == Len(input)

Running == {k \in 1..Len(fs) : fs[k].state = "RUNNING"}

Finished == {k \in 1..Len(fs) : fs[k].state = "FINISHED"}

Init ==
    /\ pc = "fetch"
    /\ input = <<>>
    /\ proxies = <<>>
    /\ statuses = <<>>
    /\ df = <<>>
    /\ i = 1
    /\ fs = <<>>
    /\ work_queue = <<>>
    /\ num_threads = 0
    /\ report = <<>>
    /\ written = FALSE
    /\ exc = "none"
    /\ requests = <<>>
    /\ writes = <<>>
    /\ feedback = 0
    /\ spins = 0
    /\ shown = ""

(* ---------------------------------------------------------- fetch_proxies *)

\* requests.get raises, or the page has no such table (table is None).
FetchFaults == {"ConnectionError", "AttributeError"}

FetchOk ==
    /\ pc = "fetch"
    /\ \E l \in FetchedLists :
        /\ proxies' = l
        /\ input' = l
        /\ requests' = [k \in 1..Len(l) |-> 0]
        /\ writes' = [k \in 1..Len(l) |-> <<>>]
    /\ pc' = "submit"
    /\ UNCHANGED <<statuses, df, i, fs, work_queue, num_threads, report, written, exc,
                   progress>>

FetchFails ==
    /\ pc = "fetch"
    /\ \E e \in FetchFaults : exc' = e
    /\ pc' = "crashed"
    /\ UNCHANGED <<input, proxies, statuses, df, i, fs, work_queue, num_threads,
                   report, written,
                   requests, writes, progress>>

(* ----------------------------------------------------- ThreadPoolExecutor *)

\* A pool that starts a thread for every submitted item.
AdjustThreadCountUncapped(n) == n + 1

\* submit() starts one more worker thread unless max_workers are running.
AdjustThreadCount(n) == IF n < max_workers THEN n + 1 ELSE n

\* executor.map submits check_proxy(proxies[i]) for every element, in order,
\* before it hands back the result iterator.
Submit ==
    /\ pc = "submit"
    /\ i <= Len(proxies)
    /\ fs' = Append(fs, [state |-> "PENDING", arg |-> proxies[i],
                         outcome |-> NoOutcome, result |-> NoResult])
    /\ work_queue' = Append(work_queue, i)
    /\ num_threads' = AdjustThreadCount(num_threads)
    /\ i' = i + 1
    /\ UNCHANGED <<pc, input, proxies, statuses, df, report, written, exc,
                   requests, writes, progress>>

\* All submitted: the enumerate loop starts on the result iterator.
MapReturns ==
    /\ pc = "submit"
    /\ i > Len(proxies)
    /\ pc' = "collect"
    /\ i' = 1
    /\ UNCHANGED <<input, proxies, statuses, df, fs, work_queue, num_threads,
                   report, written, exc,
                   requests, writes, progress>>

\* A worker thread that is not running a work item.
IdleThread == Cardinality(Running) < num_threads

\* An idle worker takes the head of the queue and calls check_proxy, which
\* issues its request and blocks on it.
WorkerStart ==
    /\ work_queue # <<>>
    /\ IdleThread
    /\ fs[Head(work_queue)].state = "PENDING"
    /\ fs' = [fs EXCEPT ![Head(work_queue)].state = "RUNNING"]
    /\ requests' = [requests EXCEPT ![Head(work_queue)] = @ + 1]
    /\ work_queue' = Tail(work_queue)
    /\ UNCHANGED <<pc, input, proxies, statuses, df, i, num_threads, report, written, exc,
                   writes, progress>>

\* An idle worker takes a cancelled work item and drops it.
WorkerDiscard ==
    /\ work_queue # <<>>
    /\ IdleThread
    /\ fs[Head(work_queue)].state = "CANCELLED"
    /\ work_queue' = Tail(work_queue)
    /\ UNCHANGED <<pc, input, proxies, statuses, df, i, fs, num_threads, report, written, exc,
                   requests, writes, progress>>

\* A check_proxy that sends its request a second time after a fault.
WorkerFinishRetries ==
    /\ \E k \in Running, o \in ProbeOutcomes :
        IF o.exc # "none" /\ requests[k] < 2
        THEN /\ requests' = [requests EXCEPT ![k] = @ + 1]
             /\ UNCHANGED fs
        ELSE /\ fs' = [fs EXCEPT ![k] = [state |-> "FINISHED", arg |-> fs[k].arg,
                                         outcome |-> o, result |-> check_proxy(fs[k].arg, o)]]
             /\ UNCHANGED requests
    /\ UNCHANGED <<pc, input, proxies, statuses, df, i, work_queue, num_threads,
                   report, written, exc, writes, progress>>

\* A worker that stores its result in `proxies` itself, besides the loop.
WorkerFinishWrites ==
    /\ \E k \in Running, o \in ProbeOutcomes :
        /\ fs' = [fs EXCEPT ![k] = [state |-> "FINISHED", arg |-> fs[k].arg,
                                    outcome |-> o, result |-> check_proxy(fs[k].arg, o)]]
        /\ proxies' = [proxies EXCEPT ![k] = check_proxy(fs[k].arg, o).value]
        /\ writes' = [writes EXCEPT ![k] = Append(@, "worker")]
    /\ UNCHANGED <<pc, input, statuses, df, i, work_queue, num_threads,
                   report, written, exc, requests, progress>>

\* The request of a running probe ends; check_proxy returns or raises and
\* the future is resolved.
WorkerFinish ==
    /\ \E k \in Running, o \in ProbeOutcomes :
        fs' = [fs EXCEPT ![k] = [state |-> "FINISHED", arg |-> fs[k].arg,
                                 outcome |-> o, result |-> check_proxy(fs[k].arg, o)]]
    /\ UNCHANGED <<pc, input, proxies, statuses, df, i, work_queue, num_threads,
                   report, written, exc,
                   requests, writes, progress>>

(* ------------------------------------------------------- running_feedback *)

\* The string the generator yields from, over and over.
Glyphs == <<"|", "/", "-", "\\">>

\* The generator's position after `times` calls of next() from position pos.
Advance(pos, times) == (pos + times) % Len(Glyphs)

\* The glyph the last of `times` >= 1 calls of next() yields from position pos.
LastGlyph(pos, times) == Glyphs[((pos + times - 1) % Len(Glyphs)) + 1]

\* A loop body that calls next(feedback) once whatever the index.
TurnsOnce(idx) == 1

\* One pass of the loop body with the 0-based index idx calls next(feedback)
\* once, and once more when idx % 10 == 0.
Turns(idx) == IF idx % 10 = 0 THEN 2 ELSE 1

(* ------------------------------------------------------ main: the dispatch *)

\* The result iterator's cleanup when a result raises: every future not yet
\* taken by a worker is cancelled; a running one cannot be.
CancelPending(futures) ==
    [k \in 1..Len(futures) |->
        IF futures[k].state = "PENDING"
        THEN [futures[k] EXCEPT !.state = "CANCELLED"]
        ELSE futures[k]]

\* A loop that stores results as they complete instead of in submission order.
CollectAsCompleted ==
    /\ pc = "collect"
    /\ i <= Len(fs)
    /\ \E k \in 1..Len(fs) :
        /\ fs[k].state = "FINISHED"
        /\ fs[k].result.raised = "none"
        /\ proxies' = [proxies EXCEPT ![i] =
                           Pair(fs[k].result.value.proxy, fs[k].result.value.status)]
    /\ writes' = [writes EXCEPT ![i] = Append(@, "main")]
    /\ feedback' = Advance(feedback, Turns(i - 1))
    /\ spins' = spins + Turns(i - 1)
    /\ shown' = LastGlyph(feedback, Turns(i - 1))
    /\ i' = i + 1
    /\ UNCHANGED <<pc, input, statuses, df, fs, work_queue, num_threads,
                   report, written, exc, requests>>

\* A loop that probes a "not working" record once more, submitting the
\* element of `proxies` it has just overwritten.
CollectResubmits ==
    /\ pc = "collect"
    /\ i <= Len(fs)
    /\ fs[i].state = "FINISHED"
    /\ fs[i].result.raised = "none"
    /\ proxies' = [proxies EXCEPT ![i] =
                       Pair(fs[i].result.value.proxy, fs[i].result.value.status)]
    /\ writes' = [writes EXCEPT ![i] = Append(@, "main")]
    /\ feedback' = Advance(feedback, Turns(i - 1))
    /\ spins' = spins + Turns(i - 1)
    /\ shown' = LastGlyph(feedback, Turns(i - 1))
    /\ IF fs[i].result.value.status = "not working" /\ fs[i].arg.kind = "Proxy"
       THEN /\ fs' = [fs EXCEPT ![i] = [state |-> "PENDING", arg |-> proxies'[i],
                                        outcome |-> NoOutcome, result |-> NoResult]]
            /\ work_queue' = Append(work_queue, i)
            /\ i' = i
       ELSE /\ i' = i + 1
            /\ UNCHANGED <<fs, work_queue>>
    /\ UNCHANGED <<pc, input, statuses, df, num_threads, report, written, exc, requests>>

\* One turn of `for i, (proxy, status) in enumerate(executor.map(...))`: the
\* iterator waits for future i, in submission order, and the body stores the
\* pair at index i.
Collect ==
    /\ pc = "collect"
    /\ i <= Len(fs)
    /\ fs[i].state = "FINISHED"
    /\ fs[i].result.raised = "none"
    /\ proxies' = [proxies EXCEPT ![i] =
                       Pair(fs[i].result.value.proxy, fs[i].result.value.status)]
    /\ writes' = [writes EXCEPT ![i] = Append(@, "main")]
    /\ feedback' = Advance(feedback, Turns(i - 1))
    /\ spins' = spins + Turns(i - 1)
    /\ shown' = LastGlyph(feedback, Turns(i - 1))
    /\ i' = i + 1
    /\ UNCHANGED <<pc, input, statuses, df, fs, work_queue, num_threads,
                   report, written, exc, requests>>

\* Future i holds an exception: result() re-raises it in main, the iterator
\* cancels what is still pending, and the exception leaves the loop.
CollectRaises ==
    /\ pc = "collect"
    /\ i <= Len(fs)
    /\ fs[i].state = "FINISHED"
    /\ fs[i].result.raised # "none"
    /\ exc' = fs[i].result.raised
    /\ fs' = CancelPending(fs)
    /\ pc' = "shutdown"
    /\ UNCHANGED <<input, proxies, statuses, df, i, work_queue, num_threads,
                   report, written,
                   requests, writes, progress>>

\* The iterator is exhausted: the loop ends and the with block is left.
LoopEnds ==
    /\ pc = "collect"
    /\ i > Len(fs)
    /\ pc' = "shutdown"
    /\ UNCHANGED <<input, proxies, statuses, df, i, fs, work_queue, num_threads,
                   report, written, exc,
                   requests, writes, progress>>

\* Leaving the with block as shutdown(wait=False) would.
ShutdownNoWait ==
    /\ pc = "shutdown"
    /\ pc' = IF exc = "none" THEN "unzip" ELSE "crashed"
    /\ UNCHANGED <<input, proxies, statuses, df, i, fs, work_queue, num_threads,
                   report, written, exc,
                   requests, writes, progress>>

\* Leaving the with block with the exception of the loop swallowed.
ShutdownSwallows ==
    /\ pc = "shutdown"
    /\ work_queue = <<>>
    /\ Running = {}
    /\ pc' = "unzip"
    /\ UNCHANGED <<input, proxies, statuses, df, i, fs, work_queue, num_threads,
                   report, written, exc,
                   requests, writes, progress>>

\* ThreadPoolExecutor.__exit__ is shutdown(wait=True): it returns when the
\* queue is drained and every worker has finished its item.
Shutdown ==
    /\ pc = "shutdown"
    /\ work_queue = <<>>
    /\ Running = {}
    /\ pc' = IF exc = "none" THEN "unzip" ELSE "crashed"
    /\ UNCHANGED <<input, proxies, statuses, df, i, fs, work_queue, num_threads,
                   report, written, exc,
                   requests, writes, progress>>

(* ------------------------------------------------- main: unzip, DataFrame *)

\* zip(*pairs): one tuple per position of the pairs, none for no pairs.
Unzip(pairs) ==
    IF pairs = <<>> THEN <<>>
    ELSE << [k \in 1..Len(pairs) |-> Proxy(pairs[k].proxy)],
            [k \in 1..Len(pairs) |-> pairs[k].status] >>

\* A table whose status column is attached in the opposite order.
DataFrameMisaligned(records, stats) ==
    [k \in 1..Len(records) |->
        [proxy |-> records[k].proxy, status |-> stats[Len(stats) + 1 - k]]]

\* pd.DataFrame(proxies) with df["status"] = statuses: row k joins the k-th
\* record and the k-th status.
DataFrame(records, stats) ==
    [k \in 1..Len(records) |-> [proxy |-> records[k].proxy, status |-> stats[k]]]

\* `proxies, statuses = zip(*proxies)` unpacks exactly two values.
BuildDataFrame ==
    /\ pc = "unzip"
    /\ Len(Unzip(proxies)) = 2
    /\ proxies' = Unzip(proxies)[1]
    /\ statuses' = Unzip(proxies)[2]
    /\ df' = DataFrame(proxies', statuses')
    /\ pc' = "export"
    /\ UNCHANGED <<input, i, fs, work_queue, num_threads, report, written, exc,
                   requests, writes, progress>>

UnpackRaises ==
    /\ pc = "unzip"
    /\ Len(Unzip(proxies)) # 2
    /\ exc' = "ValueError"
    /\ pc' = "crashed"
    /\ UNCHANGED <<input, proxies, statuses, df, i, fs, work_queue, num_threads,
                   report, written,
                   requests, writes, progress>>

(* ------------------------------------------------------- export_sorted_df *)

\* Python compares the status strings by code point; they differ in the
\* first character, "w" (119) against "n" (110).
StatusOrd(s) == IF s = "working" THEN 119 ELSE 110

Orderings(n) ==
    {f \in [1..n -> 1..n] : \A a, b \in 1..n : f[a] = f[b] => a = b}

IsDescending(rows) ==
    \A a, b \in 1..Len(rows) : a < b => StatusOrd(rows[a].status) >= StatusOrd(rows[b].status)

\* df.sort_values(by="status", ascending=False) with the default
\* kind="quicksort", which pandas documents as not stable: the rows in
\* descending status order, rows of equal status in any order.
sort_values(rows) ==
    {sorted \in {[k \in 1..Len(rows) |-> rows[f[k]]] : f \in Orderings(Len(rows))} :
        IsDescending(sorted)}

\* Sort in place, then to_excel writes the file.
Export ==
    /\ pc = "export"
    /\ df' \in sort_values(df)
    /\ report' = df'
    /\ written' = TRUE
    /\ pc' = "done"
    /\ UNCHANGED <<input, proxies, statuses, i, fs, work_queue, num_threads, exc,
                   requests, writes, progress>>

\* Sort in place, then to_excel cannot write the file.
ExportRaises ==
    /\ pc = "export"
    /\ df' \in sort_values(df)
    /\ exc' = "PermissionError"
    /\ pc' = "crashed"
    /\ UNCHANGED <<input, proxies, statuses, i, fs, work_queue, num_threads,
                   report, written,
                   requests, writes, progress>>

(* ---------------------------------------------------------- specification *)

Next ==
    \/ FetchOk
    \/ FetchFails
    \/ Submit
    \/ MapReturns
    \/ WorkerStart
    \/ WorkerDiscard
    \/ WorkerFinish
    \/ Collect
    \/ CollectRaises
    \/ LoopEnds
    \/ Shutdown
    \/ BuildDataFrame
    \/ UnpackRaises
    \/ Export
    \/ ExportRaises

Spec == Init /\ [][Next]_vars

(* ------------------------------------------------ the loop over long lists *)

\* The fetched list of n rows used to follow the loop over more than ten
\* records.
LongList(n) == [k \in 1..n |-> Proxy(IF k % 2 = 1 THEN "A" ELSE "B")]

RECURSIVE ThreadsAfter(_)
\* Worker threads started once n items were submitted.
ThreadsAfter(n) == IF n = 0 THEN 0 ELSE AdjustThreadCount(ThreadsAfter(n - 1))

\* main at the first turn of the loop over n records, in the run where
\* every probe has finished before the loop asks for the first result.
InitLoop ==
    \E n \in 0..MaxSpinN, o \in {Response(200), Response(404), Raise("ConnectTimeout")} :
        /\ pc = "collect"
        /\ input = LongList(n)
        /\ proxies = LongList(n)
        /\ statuses = <<>>
        /\ df = <<>>
        /\ i = 1
        /\ fs = [k \in 1..n |-> [state |-> "FINISHED", arg |-> LongList(n)[k],
                                 outcome |-> o, result |-> check_proxy(LongList(n)[k], o)]]
        /\ work_queue = <<>>
        /\ num_threads = ThreadsAfter(n)
        /\ report = <<>>
        /\ written = FALSE
        /\ exc = "none"
        /\ requests = [k \in 1..n |-> 1]
        /\ writes = [k \in 1..n |-> <<>>]
        /\ feedback = 0
        /\ spins = 0
        /\ shown = ""

NextLoop ==
    \/ Collect
    \/ LoopEnds
    \/ Shutdown

\* The dispatch loop alone, from all probes finished to the with block left.
LoopSpec == InitLoop /\ [][NextLoop]_vars

(* ------------------------------------------------- vocabulary of the claims *)

\* fetch_proxies returned a list (main is past line 122).
FetchSucceeded == pc # "fetch" /\ ~(pc = "crashed" /\ exc \in FetchFaults)

\* main has left the with block without an exception.
DispatchReturned == pc \in {"unzip", "export", "done"} \/ (pc = "crashed" /\ exc \in {"ValueError", "PermissionError"})

IsNetworkFault(o) == o.exc # "none" /\ IsInstance(o.exc, "RequestException")

IsOtherFault(o) == o.exc # "none" /\ ~IsInstance(o.exc, "RequestException")

\* The status the spec assigns to an outcome that is a response or a network fault.
Classify(o) == IF o.exc = "none" /\ o.status_code = 200 THEN "working" ELSE "not working"

\* No finished probe ended in a fault outside the network fault classes.
NoOtherFault == \A k \in Finished : ~IsOtherFault(fs[k].outcome)

AllFinished == Len(fs) = N /\ \A k \in 1..N : fs[k].state = "FINISHED"

(* --------------------------------------------------------------------- C1 *)

\* C1: whatever the completion order, the dispatch loop stores result k at
\* index k: every index already collected holds the pair of input record k,
\* every index not yet collected still holds input record k, and when the
\* loop ends normally all N indices are collected.
C1_OrderPreserved ==
    /\ pc \in {"collect", "shutdown", "unzip"} =>
          /\ Len(proxies) = N
          /\ \A k \in 1..N :
                IF k < i
                THEN proxies[k].kind = "tuple" /\ proxies[k].proxy = input[k].proxy
                ELSE proxies[k] = input[k]
    /\ pc = "unzip" => i = N + 1

\* The third probe completed while the second is still running, and the
\* first result has been collected.
C1_Witness ==
    /\ pc = "collect"
    /\ N = 3
    /\ i = 2
    /\ fs[2].state = "RUNNING"
    /\ fs[3].state = "FINISHED"
    /\ input[1].proxy # input[3].proxy
    /\ proxies[1] = Pair(input[1].proxy, fs[1].result.value.status)

(* --------------------------------------------------------------------- C2 *)

\* C2: check_proxy returns "working" exactly when the response code is 200,
\* returns "not working" for every other response code and for every network
\* fault without raising, and returns no third status.
C2_FaultNormalization ==
    \A k \in Finished :
        LET o == fs[k].outcome
            r == fs[k].result
        IN  /\ (r.raised = "none" /\ r.value.status = "working")
                  <=> (o.exc = "none" /\ o.status_code = 200)
            /\ (o.exc = "none" /\ o.status_code # 200) =>
                  (r.raised = "none" /\ r.value.status = "not working")
            /\ IsNetworkFault(o) => (r.raised = "none" /\ r.value.status = "not working")
            /\ r.raised = "none" => r.value.status \in {"working", "not working"}
            /\ r.raised = "none" => r.value.proxy = fs[k].arg.proxy

\* One probe answered 200, one 404, one timed out.
C2_Witness ==
    /\ N = 3
    /\ \E a, b, c \in Finished :
        /\ fs[a].outcome = Response(200) /\ fs[a].result.value.status = "working"
        /\ fs[b].outcome = Response(404) /\ fs[b].result.value.status = "not working"
        /\ fs[c].outcome = Raise("ConnectTimeout") /\ fs[c].result.value.status = "not working"

(* --------------------------------------------------------------------- C3 *)

\* C3: at most max_workers probes are in flight at any instant, and a probe
\* beyond the first max_workers has started only if an earlier one finished.
C3_ConcurrencyBound ==
    /\ Cardinality(Running) <= max_workers
    /\ \A k \in 1..Len(fs) :
          (k > max_workers /\ fs[k].state \in {"RUNNING", "FINISHED"}) =>
              \E j \in 1..(k - 1) : fs[j].state = "FINISHED"

\* More records than workers: the pool is full and a record beyond the first
\* max_workers is among the running probes.
C3_Witness ==
    /\ N > max_workers
    /\ Cardinality(Running) = max_workers
    /\ \E k \in Running : k > max_workers

(* --------------------------------------------------------------------- C4 *)

\* C4: when the fetcher returns no record, the run does not fail and ends
\* with a written report that has no rows.
C4_EmptyInputHeaderOnly ==
    (FetchSucceeded /\ N = 0) =>
        /\ pc # "crashed"
        /\ pc = "done" => (written /\ report = <<>>)

(* --------------------------------------------------------------------- C5 *)

IsWorkingRow(r) == r.status = "working"

IsNotWorkingRow(r) == r.status # "working"

\* The rows with the working ones first and the given order kept otherwise.
StableWorkingFirst(rows) == SelectSeq(rows, IsWorkingRow) \o SelectSeq(rows, IsNotWorkingRow)

\* C5: the report lists every working row before every not working row and
\* keeps rows of equal status in the order of the table given to
\* export_sorted_df.
C5_StableWorkingFirst ==
    pc = "done" => report = StableWorkingFirst(DataFrame(proxies, statuses))

(* --------------------------------------------------------------------- C6 *)

\* C6: once main has left the dispatch block no probe is running or waiting;
\* when it left it normally all N probes have finished and all N results
\* were collected; the export starts, and the report is written, only then;
\* a probe is cancelled only when a fault is propagating out of the loop.
C6_AllProbesComplete ==
    /\ (FetchSucceeded /\ pc \in {"unzip", "export", "done", "crashed"}) =>
          /\ Len(fs) = N
          /\ \A k \in 1..N : fs[k].state \in {"FINISHED", "CANCELLED"}
    /\ (DispatchReturned \/ written) => (AllFinished /\ i = N + 1)
    /\ (pc = "shutdown" /\ exc = "none") => (AllFinished /\ i = N + 1)
    /\ (\E k \in 1..Len(fs) : fs[k].state = "CANCELLED") => exc # "none"

\* The report is written after three probes, one of which timed out.
C6_Witness ==
    /\ pc = "done"
    /\ written
    /\ N = 3
    /\ AllFinished
    /\ \E k \in 1..N : fs[k].outcome = Raise("ConnectTimeout")

(* --------------------------------------------------------------------- C7 *)

\* C7: a probe that ends in a network fault or a non-200 response resolves
\* its future with "not working" and nothing is raised; as long as no probe
\* ends in a fault of another class, main leaves the dispatch block normally
\* with N results, each classified by its own outcome, only a failed write
\* of the report can end a run over N >= 1 records, and a finished run has
\* written a report of N rows.
C7_ProbeFailureContained ==
    /\ \A k \in Finished :
          (IsNetworkFault(fs[k].outcome) \/ fs[k].outcome.exc = "none") =>
              fs[k].result = Returned(Pair(input[k].proxy, Classify(fs[k].outcome)))
    /\ (NoOtherFault /\ pc \in {"collect", "shutdown"}) =>
          /\ exc = "none"
          /\ \A k \in 1..(i - 1) : proxies[k] = Pair(input[k].proxy, Classify(fs[k].outcome))
    /\ (NoOtherFault /\ pc = "unzip") =>
          /\ Len(proxies) = N
          /\ \A k \in 1..N : proxies[k] = Pair(input[k].proxy, Classify(fs[k].outcome))
    /\ (NoOtherFault /\ FetchSucceeded /\ N >= 1 /\ pc = "crashed") =>
          (exc = "PermissionError" /\ AllFinished)
    /\ pc = "done" =>
          /\ written
          /\ Len(report) = N
          /\ \A k \in 1..N :
                /\ statuses[k] = Classify(fs[k].outcome)
                /\ proxies[k] = input[k]

\* A finished run over three records: one timed out, one answered 404, one 200.
C7_Witness ==
    /\ pc = "done"
    /\ written
    /\ Len(report) = 3
    /\ fs[1].outcome = Raise("ConnectTimeout")
    /\ fs[2].outcome = Response(200)
    /\ fs[3].outcome = Response(404)
    /\ statuses = <<"not working", "working", "not working">>

(* --------------------------------------------------------------------- C8 *)

\* C8: when the fetch fails no probe is dispatched and nothing is written;
\* a run that ended in an exception has written no report; a report is
\* written only after the fetch succeeded and all N results were collected.
C8_NoPartialReport ==
    /\ (pc = "crashed" /\ exc \in FetchFaults) =>
          (fs = <<>> /\ work_queue = <<>> /\ num_threads = 0 /\ ~written)
    /\ pc = "crashed" => ~written
    /\ exc # "none" => ~written
    /\ written =>
          /\ FetchSucceeded
          /\ AllFinished
          /\ i = N + 1
          /\ Len(report) = N

\* The fetch failed.
C8_Witness == pc = "crashed" /\ exc \in FetchFaults /\ input = <<>> /\ ~written

(* --------------------------------------------------------------------- C9 *)

\* C9: sorting a table that is already working-first leaves it as it is.
C9_SortIdempotent ==
    (pc = "done" /\ IsDescending(DataFrame(proxies, statuses))) =>
        report = DataFrame(proxies, statuses)

(* -------------------------------------------------------------------- C10 *)

\* C10: main does not end in an exception unless the fetch failed, a probe
\* ended in a fault outside the network fault classes, or the report could
\* not be written.
C10_RunsToCompletion ==
    pc = "crashed" => (exc \in FetchFaults \/ exc = "PermissionError" \/ ~NoOtherFault)

(* -------------------------------------------------------------------- C11 *)

RECURSIVE Sum(_)
Sum(counts) == IF counts = <<>> THEN 0 ELSE Head(counts) + Sum(Tail(counts))

\* C11: no record is ever probed twice; a record has its one request exactly
\* when a worker has taken its probe; and once main has left the dispatch
\* block normally every record has been probed once, N requests in all,
\* whatever the probes ended in.
C11_OneRequestPerRecord ==
    /\ FetchSucceeded => Len(requests) = N
    /\ \A k \in 1..Len(requests) :
          /\ requests[k] <= 1
          /\ requests[k] = 1 <=> (k <= Len(fs) /\ fs[k].state \in {"RUNNING", "FINISHED"})
    /\ DispatchReturned => (Sum(requests) = N /\ \A k \in 1..N : requests[k] = 1)

\* A finished run over three records, two of whose probes failed.
C11_Witness ==
    /\ pc = "done"
    /\ N = 3
    /\ fs[1].outcome = Raise("ProxyError")
    /\ fs[2].outcome = Raise("ConnectTimeout")
    /\ Sum(requests) = 3

(* -------------------------------------------------------------------- C12 *)

\* Every index of `proxies` was assigned at most once, by the main thread,
\* and the indices assigned are exactly those the loop has passed.
OneWritePerIndex ==
    /\ \A k \in 1..Len(writes) :
          /\ Len(writes[k]) <= 1
          /\ \A w \in 1..Len(writes[k]) : writes[k][w] = "main"
    /\ pc \in {"collect", "shutdown"} =>
          \A k \in 1..Len(writes) : (writes[k] = <<"main">>) <=> k < i
    /\ DispatchReturned => (Len(writes) = N /\ \A k \in 1..N : writes[k] = <<"main">>)

\* A step of a worker thread.
WorkerStep == WorkerStart \/ WorkerDiscard \/ WorkerFinish

\* C12: each index of the results collection is written at most once, always
\* by the same single writer (the main thread), and exactly once by the time
\* the dispatch block is left normally; a step of a worker thread changes
\* nothing but the executor's futures and queue: not `proxies`, nor any
\* other variable of main.
C12_SingleWriter ==
    /\ []OneWritePerIndex
    /\ [][WorkerStep =>
            UNCHANGED <<pc, input, proxies, statuses, df, i, report, written, exc,
                        writes, progress>>]_vars

\* Two indices are written while the third probe is still running.
C12_Witness ==
    /\ pc = "collect"
    /\ N = 3
    /\ i = 3
    /\ writes = << <<"main">>, <<"main">>, <<>> >>
    /\ fs[3].state = "RUNNING"

(* -------------------------------------------------------------------- C13 *)

\* C13: a probe fault outside the network fault classes is raised by
\* check_proxy, not turned into a status; main never gets past the dispatch
\* block of a run in which a probe ended so, and no report is written; the
\* exception leaving the loop is the fault of the probe the loop stands at.
C13_OtherFaultPropagates ==
    /\ \A k \in Finished :
          IsOtherFault(fs[k].outcome) => fs[k].result = Raised(fs[k].outcome.exc)
    /\ ~NoOtherFault => (pc \in {"submit", "collect", "shutdown", "crashed"} /\ ~written)
    /\ (~NoOtherFault /\ pc = "crashed") =>
          /\ i \in Finished
          /\ IsOtherFault(fs[i].outcome)
          /\ exc = fs[i].outcome.exc
          /\ \A k \in 1..(i - 1) : ~IsOtherFault(fs[k].outcome)
    /\ (pc = "shutdown" /\ exc # "none") => (IsOtherFault(fs[i].outcome) /\ exc = fs[i].outcome.exc)

\* The first probe raised TypeError: the run ended with it, the third probe
\* was cancelled, nothing was written.
C13_Witness ==
    /\ pc = "crashed"
    /\ exc = "TypeError"
    /\ N = 3
    /\ fs[1].outcome = Raise("TypeError")
    /\ fs[3].state = "CANCELLED"
    /\ ~written

(* -------------------------------------------------------------------- C14 *)

\* C14: the argument of every probe, whenever it was submitted, started or
\* finished, is the Proxy record fetch_proxies put at its index, never a
\* pair the loop has stored in `proxies`.
C14_ProbesGetOriginalRecords ==
    /\ Len(fs) <= N
    /\ \A k \in 1..Len(fs) :
          /\ fs[k].arg.kind = "Proxy"
          /\ fs[k].arg = input[k]

\* The loop has overwritten the first two elements with pairs while the
\* third probe is still running on its record.
C14_Witness ==
    /\ pc = "collect"
    /\ N = 3
    /\ proxies[1].kind = "tuple"
    /\ proxies[2].kind = "tuple"
    /\ fs[3].state = "RUNNING"
    /\ fs[3].arg = input[3]

(* -------------------------------------------------------------------- C15 *)

\* Row k as the probes decided it: record k with the status check_proxy
\* returned for it.
Verdicts == [k \in 1..N |-> [proxy |-> input[k].proxy, status |-> fs[k].result.value.status]]

\* Same rows, same number of times each, in some order.
IsReordering(a, b) ==
    /\ Len(a) = Len(b)
    /\ \E f \in Orderings(Len(a)) : \A k \in 1..Len(a) : a[k] = b[f[k]]

\* C15: the table built from the two unzipped collections has, row by row,
\* each record with the status check_proxy returned for it; sorting only
\* reorders whole rows; the written report has exactly N rows, the same
\* record-status pairs.
C15_RowsKeepTheirStatus ==
    /\ pc = "export" => df = Verdicts
    /\ pc \in {"export", "done"} =>
          /\ Len(proxies) = N /\ Len(statuses) = N
          /\ \A k \in 1..N : proxies[k] = input[k] /\ statuses[k] = fs[k].result.value.status
    /\ (pc = "crashed" /\ exc = "PermissionError") => IsReordering(df, Verdicts)
    /\ pc = "done" =>
          /\ Len(report) = N
          /\ IsReordering(report, Verdicts)
          /\ report = df

\* A report of three rows whose order differs from the order of the results:
\* the working record was second and is written first.
C15_Witness ==
    /\ pc = "done"
    /\ N = 3
    /\ input[1].proxy # input[2].proxy
    /\ Verdicts[1].status = "not working"
    /\ Verdicts[2].status = "working"
    /\ Verdicts[3].status = "not working"
    /\ report[1] = Verdicts[2]

(* -------------------------------------------------------------------- C16 *)

\* Results the loop has collected.
Collected == i - 1

\* C16: after c collected results next(feedback) was called c + ceil(c/10)
\* times (once per result, twice for the 0-based indices 0, 10, 20, ...),
\* the generator stands at that count modulo 4 and the glyph last printed is
\* the one of that count in the cycle | / - \; the results are stored in
\* input order all the same, and the loop is never held up: with the next
\* result available the next turn, or the end of the loop, can be taken.
C16_SpinnerCount ==
    /\ spins = Collected + ((Collected + 9) \div 10)
    /\ feedback = spins % 4
    /\ shown = IF Collected = 0 THEN "" ELSE Glyphs[((spins - 1) % 4) + 1]
    /\ \A k \in 1..Collected :
          proxies[k] = Pair(input[k].proxy, fs[k].result.value.status)
    /\ pc = "collect" => ENABLED (Collect \/ LoopEnds)
    /\ pc \in {"shutdown", "unzip"} =>
          (Collected = N /\ spins = N + ((N + 9) \div 10))

\* The loop over 21 records has ended: 21 + 3 calls, the last glyph is the
\* fourth of the cycle.
C16_Witness ==
    /\ pc = "unzip"
    /\ N = 21
    /\ spins = 24
    /\ feedback = 0
    /\ shown = Glyphs[4]

====
